---- MODULE Spec2Model ----
(***************************************************************************)
(* Model of the timetool core: the Clock Controller (time_manager.py,      *)
(* TimeManager) and the Network Time Synchronizer (ntp_client.py,          *)
(* WindowsTimeSync), the operation history (error_handler.py,              *)
(* OperationHistory) and the main window that drives them (main_window.py, *)
(* TimeToolMainWindow and NTPSyncThread).                                  *)
(*                                                                         *)
(* A datetime is a pair <<sec, ms>>: whole seconds since an arbitrary      *)
(* epoch and the sub-second part in milliseconds.  None is <<>>.           *)
(***************************************************************************)
EXTENDS Integers, Sequences, FiniteSets, TLC

VARIABLES
    admin,      \* what IsUserAnAdmin() answers for this process
    tzOffset,   \* local time minus UTC, in seconds (the OS time zone)
    utc,        \* the OS system clock, in UTC: <<sec, ms>>
    lastTime,   \* TimeManager._last_time: None or a local datetime
    result,     \* (ok, msg) returned by the last TimeManager call
    hist,       \* the last two steps of the clock, newest first
    setSince,   \* a set_system_time succeeded and no undo call began since
    attempted,  \* a set_system_time got past its privilege check
    replaced,   \* the value remembered by a successful set_system_time that
                \* the latest set or adjust, its write failing, overwrote
    nOps,       \* TimeManager calls made so far
    nTicks,     \* wall-clock advances so far
    svcRunning,     \* the OS time service (w32time) is running
    svcStartType,   \* its startup mode, as 'sc qc' prints it
    peerList,       \* its manual peer list, as last written
    stack,      \* call stack of the WindowsTimeSync caller, innermost last
    ret,        \* what the innermost finished call returned
    cmdLog,     \* commands _run_command ran in the current top-level call
    retLog,     \* returns of the current top-level call and its nested calls
    ntpResult,  \* what the last finished top-level call returned
    call,       \* the current top-level call: its arguments, the service then
    prev,       \* the top-level call before it, in brief
    nCalls,     \* top-level WindowsTimeSync calls made so far
    max_history,    \* OperationHistory.max_history
    history,        \* OperationHistory.history, oldest record first
    added,          \* every record added since the last clear_history
    lastOperation,  \* what the last get_last_operation call returned
    nAdds,          \* add_operation calls made so far
    ntp_button,     \* ntp_button.isEnabled()
    undo_button,    \* undo_button.isEnabled()
    ntp_thread,     \* the NTPSyncThread last started: none, running, emitted
                    \* (its finished signal is queued), delivered
    signal,         \* the (success, message) its finished signal carries
    old_time,       \* current_time the finished callback was connected with
    inFlight,       \* threads started whose finished callback has not run
    duringSync,     \* TimeManager calls made since the thread started
    slotAtStart     \* _last_time when the thread started

clockVars == <<admin, tzOffset, utc, lastTime, result, hist, setSince,
               attempted, replaced, nOps, nTicks>>

serviceVars == <<svcRunning, svcStartType, peerList>>

syncVars == <<stack, ret, cmdLog, retLog, ntpResult, call, prev, nCalls>>

historyVars == <<max_history, history, added, lastOperation, nAdds>>

uiVars == <<ntp_button, undo_button, ntp_thread, signal, old_time, inFlight,
           duringSync, slotAtStart>>

appVars == <<historyVars, uiVars>>

vars == <<clockVars, serviceVars, syncVars, appVars>>

----------------------------------------------------------------------------
(* Bounds of the model *)

MaxOps == 3
MaxTicks == 1
MaxCalls == 2
MaxHistory == 3
MaxAdds == 5
MaxUiOps == 2

(* Program and platform constants *)

MsPerSec == 1000
SecPerMinute == 60
SecPerHour == 3600
SecPerDay == 86400

None == <<>>

\* the wall clock advances in steps of half a second
TickMs == 500

\* time zones the machine may be configured with: UTC-5, UTC, UTC+8
TzOffsets == {0 - 5 * SecPerHour, 0, 8 * SecPerHour}

\* outcomes of the kernel32.SetSystemTime call: nonzero, zero, Python exception
OsOutcomes == {"ok", "fail", "exc"}

\* arguments of set_system_time when called directly (naive local datetimes)
SetInputs == {<<SecPerDay, 0>>, <<2 * SecPerHour + 5, 250>>}

\* (days, hours, minutes) of adjust_time: the UI's day buttons and one
\* hours/minutes adjustment
AdjustArgs == {<<3, 0, 0>>, <<0 - 3, 0, 0>>, <<0 - 7, 0, 0>>, <<0, 1, 30>>}

\* messages of TimeManager, by the error they narrate
MsgSetOk == "SystemTimeSet"
MsgPermissionDenied == "PermissionDenied"
MsgSystemCallFailed == "SystemCallFailed"
MsgSystemCallException == "SystemCallException"
MsgNothingToUndo == "NothingToUndo"

----------------------------------------------------------------------------
(* datetime arithmetic *)

Sec(t) == t[1]
Ms(t) == t[2]

\* datetime + timedelta(seconds = s)
AddSeconds(t, s) == <<Sec(t) + s, Ms(t)>>

\* datetime.timedelta(days, hours, minutes), in seconds
TimeDelta(days, hours, minutes) ==
    days * SecPerDay + hours * SecPerHour + minutes * SecPerMinute

\* a datetime cut to whole seconds
TruncSec(t) == <<Sec(t), 0>>

\* the wall clock after ms more milliseconds
Advance(t, ms) ==
    <<Sec(t) + ((Ms(t) + ms) \div MsPerSec), (Ms(t) + ms) % MsPerSec>>

----------------------------------------------------------------------------
(* TimeManager *)

\* GetLocalTime: the system clock shifted by the time zone, milliseconds kept
LocalOf(u) == AddSeconds(u, tzOffset)

get_local_time == LocalOf(utc)

\* new_time.utctimetuple() of a naive datetime: the same wall-clock fields,
\* no time-zone shift; a struct_time carries no sub-second part
utctimetuple(new_time) == Sec(new_time)

\* the SYSTEMTIME handed to SetSystemTime: the tuple's fields, wMilliseconds = 0
SystemTimeOf(new_time) == <<utctimetuple(new_time), 0>>

can_undo == lastTime # None

\* one entry of hist
Step(op, arg, outcome, preLast, wrote, written) ==
    [op |-> op, arg |-> arg, ok |-> outcome.ok, msg |-> outcome.msg,
     preLocal |-> get_local_time, preUtc |-> utc, preLast |-> preLast,
     wrote |-> wrote, written |-> written]

Record(step) == hist' = <<step, hist[1]>>

NoStep == [op |-> "none", arg |-> None, ok |-> FALSE, msg |-> "",
           preLocal |-> None, preUtc |-> None, preLast |-> None,
           wrote |-> FALSE, written |-> None]

\* what set_system_time answers for an outcome of the OS call
SetOutcome(os) ==
    CASE os = "ok" -> [ok |-> TRUE, msg |-> MsgSetOk]
      [] os = "fail" -> [ok |-> FALSE, msg |-> MsgSystemCallFailed]
      [] os = "exc" -> [ok |-> FALSE, msg |-> MsgSystemCallException]

\* what a set_system_time call entered with _last_time = curLast leaves in
\* replaced: a set or adjust whose write fails right after a successful call
\* overwrites the value that call remembered (line 98); an undo keeps it
Replaced(op, curLast, os) ==
    IF op = "undo" THEN replaced
    ELSE IF admin /\ os # "ok" /\ result.ok /\ curLast # None THEN curLast
    ELSE None

\* set_system_time remembering the requested time instead of the current one
set_system_time_saves_target(op, arg, new_time, curLast, preLast, os) ==
    IF ~admin
    THEN /\ lastTime' = curLast
         /\ utc' = utc
         /\ result' = [ok |-> FALSE, msg |-> MsgPermissionDenied]
         /\ Record(Step(op, arg, result', preLast, FALSE, None))
         /\ setSince' = (setSince /\ op # "undo")
         /\ attempted' = attempted
         /\ replaced' = Replaced(op, curLast, os)
    ELSE /\ lastTime' = new_time
         /\ utc' = IF os = "ok" THEN SystemTimeOf(new_time) ELSE utc
         /\ result' = SetOutcome(os)
         /\ Record(Step(op, arg, result', preLast, os # "exc",
                        SystemTimeOf(new_time)))
         /\ setSince' = (os = "ok" \/ (setSince /\ op # "undo"))
         /\ attempted' = TRUE
         /\ replaced' = Replaced(op, curLast, os)

\* set_system_time remembering the current time only once the write succeeded
set_system_time_saves_on_success(op, arg, new_time, curLast, preLast, os) ==
    IF ~admin
    THEN /\ lastTime' = curLast
         /\ utc' = utc
         /\ result' = [ok |-> FALSE, msg |-> MsgPermissionDenied]
         /\ Record(Step(op, arg, result', preLast, FALSE, None))
         /\ setSince' = (setSince /\ op # "undo")
         /\ attempted' = attempted
         /\ replaced' = Replaced(op, curLast, os)
    ELSE /\ lastTime' = IF os = "ok" THEN get_local_time ELSE curLast
         /\ utc' = IF os = "ok" THEN SystemTimeOf(new_time) ELSE utc
         /\ result' = SetOutcome(os)
         /\ Record(Step(op, arg, result', preLast, os # "exc",
                        SystemTimeOf(new_time)))
         /\ setSince' = (os = "ok" \/ (setSince /\ op # "undo"))
         /\ attempted' = TRUE
         /\ replaced' = Replaced(op, curLast, os)

\* set_system_time remembering the current time before its privilege check
set_system_time_saves_before_check(op, arg, new_time, curLast, preLast, os) ==
    IF ~admin
    THEN /\ lastTime' = get_local_time
         /\ utc' = utc
         /\ result' = [ok |-> FALSE, msg |-> MsgPermissionDenied]
         /\ Record(Step(op, arg, result', preLast, FALSE, None))
         /\ setSince' = (setSince /\ op # "undo")
         /\ attempted' = attempted
         /\ replaced' = Replaced(op, curLast, os)
    ELSE /\ lastTime' = get_local_time
         /\ utc' = IF os = "ok" THEN SystemTimeOf(new_time) ELSE utc
         /\ result' = SetOutcome(os)
         /\ Record(Step(op, arg, result', preLast, os # "exc",
                        SystemTimeOf(new_time)))
         /\ setSince' = (os = "ok" \/ (setSince /\ op # "undo"))
         /\ attempted' = TRUE
         /\ replaced' = Replaced(op, curLast, os)

\* set_system_time writing the clock before it checks the privilege
set_system_time_writes_before_check(op, arg, new_time, curLast, preLast, os) ==
    /\ lastTime' = IF admin THEN get_local_time ELSE curLast
    /\ utc' = IF os = "ok" THEN SystemTimeOf(new_time) ELSE utc
    /\ result' = IF admin THEN SetOutcome(os)
                 ELSE [ok |-> FALSE, msg |-> MsgPermissionDenied]
    /\ Record(Step(op, arg, result', preLast, os # "exc",
                   SystemTimeOf(new_time)))
    /\ setSince' = ((admin /\ os = "ok") \/ (setSince /\ op # "undo"))
    /\ attempted' = (attempted \/ admin)
    /\ replaced' = Replaced(op, curLast, os)

\* set_system_time remembering the current time only while nothing is
\* remembered
set_system_time_keeps_first(op, arg, new_time, curLast, preLast, os) ==
    IF ~admin
    THEN /\ lastTime' = curLast
         /\ utc' = utc
         /\ result' = [ok |-> FALSE, msg |-> MsgPermissionDenied]
         /\ Record(Step(op, arg, result', preLast, FALSE, None))
         /\ setSince' = (setSince /\ op # "undo")
         /\ attempted' = attempted
         /\ replaced' = Replaced(op, curLast, os)
    ELSE /\ lastTime' = IF curLast = None THEN get_local_time ELSE curLast
         /\ utc' = IF os = "ok" THEN SystemTimeOf(new_time) ELSE utc
         /\ result' = SetOutcome(os)
         /\ Record(Step(op, arg, result', preLast, os # "exc",
                        SystemTimeOf(new_time)))
         /\ setSince' = (os = "ok" \/ (setSince /\ op # "undo"))
         /\ attempted' = TRUE
         /\ replaced' = Replaced(op, curLast, os)

\* the body of set_system_time, entered with _last_time = curLast, as part
\* of the call op(arg) whose _last_time at entry was preLast
set_system_time(op, arg, new_time, curLast, preLast, os) ==
    IF ~admin
    THEN /\ lastTime' = curLast
         /\ utc' = utc
         /\ result' = [ok |-> FALSE, msg |-> MsgPermissionDenied]
         /\ Record(Step(op, arg, result', preLast, FALSE, None))
         /\ setSince' = (setSince /\ op # "undo")
         /\ attempted' = attempted
         /\ replaced' = Replaced(op, curLast, os)
    ELSE /\ lastTime' = get_local_time
         /\ utc' = IF os = "ok" THEN SystemTimeOf(new_time) ELSE utc
         /\ result' = SetOutcome(os)
         /\ Record(Step(op, arg, result', preLast, os # "exc",
                        SystemTimeOf(new_time)))
         /\ setSince' = (os = "ok" \/ (setSince /\ op # "undo"))
         /\ attempted' = TRUE
         /\ replaced' = Replaced(op, curLast, os)

SetSystemTime(t, os) ==
    /\ nOps < MaxOps
    /\ nOps' = nOps + 1
    /\ set_system_time("set", t, t, lastTime, lastTime, os)
    /\ UNCHANGED <<admin, tzOffset, nTicks, serviceVars, syncVars, appVars>>

adjust_time(days, hours, minutes, os) ==
    /\ nOps < MaxOps
    /\ nOps' = nOps + 1
    /\ LET current_time == get_local_time
           delta == TimeDelta(days, hours, minutes)
           new_time == AddSeconds(current_time, delta)
       IN set_system_time("adjust", <<days, hours, minutes>>, new_time,
                          lastTime, lastTime, os)
    /\ UNCHANGED <<admin, tzOffset, nTicks, serviceVars, syncVars, appVars>>

\* undo_last_change writing the remembered time itself, so that nothing is
\* remembered once it returns
undo_last_change_clears(os) ==
    /\ nOps < MaxOps
    /\ nOps' = nOps + 1
    /\ IF ~can_undo
       THEN /\ result' = [ok |-> FALSE, msg |-> MsgNothingToUndo]
            /\ Record(Step("undo", None, result', lastTime, FALSE, None))
            /\ setSince' = FALSE
            /\ UNCHANGED <<utc, lastTime, attempted, replaced>>
       ELSE /\ lastTime' = None
            /\ utc' = IF admin /\ os = "ok" THEN SystemTimeOf(lastTime) ELSE utc
            /\ result' = IF admin THEN SetOutcome(os)
                         ELSE [ok |-> FALSE, msg |-> MsgPermissionDenied]
            /\ Record(Step("undo", None, result', lastTime,
                           admin /\ os # "exc", SystemTimeOf(lastTime)))
            /\ setSince' = (admin /\ os = "ok")
            /\ UNCHANGED <<attempted, replaced>>
    /\ UNCHANGED <<admin, tzOffset, nTicks, serviceVars, syncVars, appVars>>

\* undo_last_change falling back to the current time when nothing is remembered
undo_last_change_no_guard(os) ==
    /\ nOps < MaxOps
    /\ nOps' = nOps + 1
    /\ LET last_time == IF can_undo THEN lastTime ELSE get_local_time
       IN set_system_time("undo", None, last_time, None, lastTime, os)
    /\ UNCHANGED <<admin, tzOffset, nTicks, serviceVars, syncVars, appVars>>

undo_last_change(os) ==
    /\ nOps < MaxOps
    /\ nOps' = nOps + 1
    /\ IF ~can_undo
       THEN /\ result' = [ok |-> FALSE, msg |-> MsgNothingToUndo]
            /\ Record(Step("undo", None, result', lastTime, FALSE, None))
            /\ setSince' = FALSE
            /\ UNCHANGED <<utc, lastTime, attempted, replaced>>
       ELSE LET last_time == lastTime
            IN set_system_time("undo", None, last_time, None, lastTime, os)
    /\ UNCHANGED <<admin, tzOffset, nTicks, serviceVars, syncVars, appVars>>

\* the wall clock moves on between two calls
Tick ==
    /\ nTicks < MaxTicks
    /\ nTicks' = nTicks + 1
    /\ utc' = Advance(utc, TickMs)
    /\ Record([NoStep EXCEPT !.op = "tick", !.preLocal = get_local_time,
                             !.preUtc = utc, !.preLast = lastTime])
    /\ UNCHANGED <<admin, tzOffset, lastTime, result, setSince, attempted,
                   replaced, nOps, serviceVars, syncVars, appVars>>

----------------------------------------------------------------------------
(* WindowsTimeSync.  A message is a sequence of tokens; a token is a pair  *)
(* <<"lit", text>> for text of the program, <<"host", name>> for a server  *)
(* name and <<command, text>> for text a command printed.                  *)

ALIYUN_NTP_SERVERS == <<"ntp.aliyun.com", "ntp2.aliyun.com", "ntp3.aliyun.com">>

StartTypes == {"DISABLED", "AUTO_START", "DEMAND_START"}

\* the commands handed to _run_command
CmdQuery == "sc query w32time"
CmdQc == "sc qc w32time"
CmdEnable == "sc config w32time start= auto"
CmdStart == "net start w32time"
CmdRegister == "w32tm /register"
CmdConfig == "w32tm /config /manualpeerlist"
CmdRestart == "net stop w32time && net start w32time"
CmdResync == "w32tm /resync /force"
CmdStatus == "w32tm /query /status"

\* how a command can end: exit code 0; non-zero exit code; non-zero exit code
\* of the start command with the "already running" text; TimeoutExpired; any
\* other exception of subprocess.run
CmdKinds == {"ok", "fail", "already", "timeout", "exc"}

Lit(text) == <<"lit", text>>

\* result.stdout.strip() of a command that exited with 0
Stdout(cmd) ==
    CASE cmd = CmdQuery -> IF svcRunning THEN "RUNNING" ELSE "STOPPED"
      [] cmd = CmdQc -> svcStartType
      [] OTHER -> "stdout"

\* the ways a command fails other than by the "already running" answer
FailureKinds == {"fail", "timeout", "exc"}

\* what the OS lets a command do in the current state of the service; the
\* commands that fail during one top-level call fail the same way
Possible(cmd, kind) ==
    CASE kind = "already" -> cmd = CmdStart /\ svcRunning
      [] kind \in FailureKinds -> kind = call.failure
      [] kind = "ok" /\ cmd = CmdStart ->
             ~svcRunning /\ svcStartType # "DISABLED"
      [] kind = "ok" /\ cmd = CmdRestart ->
             svcRunning /\ svcStartType # "DISABLED"
      [] kind = "ok" /\ cmd = CmdResync -> svcRunning
      [] OTHER -> TRUE

\* the time the time servers give
NtpTime == <<0, 0>>

\* _run_command's answer (success, output)
run_command(cmd, kind) ==
    CASE kind = "ok" -> [ok |-> TRUE, out |-> <<<<cmd, Stdout(cmd)>>>>]
      [] kind = "fail" -> [ok |-> FALSE, out |-> <<<<cmd, "stderr">>>>]
      [] kind = "already" ->
             [ok |-> FALSE, out |-> <<<<cmd, "service is already running">>>>]
      [] kind = "timeout" -> [ok |-> FALSE, out |-> <<Lit("command timed out")>>]
      [] kind = "exc" -> [ok |-> FALSE, out |-> <<Lit("command raised")>>]

\* text in output
InOutput(text, output) == \E i \in DOMAIN output : output[i][2] = text

\* ",".join(server_list)
Join(server_list) ==
    [i \in 1..(IF Len(server_list) = 0 THEN 0 ELSE 2 * Len(server_list) - 1) |->
        IF i % 2 = 1 THEN <<"host", server_list[(i + 1) \div 2]>>
        ELSE Lit(",")]

\* _run_command: the command is run, ends as kind, and has its effect on the
\* service and the clock
Run(cmd, arg, kind) ==
    /\ Possible(cmd, kind)
    /\ cmdLog' = Append(cmdLog, [cmd |-> cmd, arg |-> arg, kind |-> kind,
                                 out |-> run_command(cmd, kind).out,
                                 nret |-> Len(retLog)])
    /\ svcRunning' =
           CASE kind = "ok" /\ cmd \in {CmdStart, CmdRestart} -> TRUE
             [] kind = "fail" /\ cmd = CmdRestart -> FALSE
             [] OTHER -> svcRunning
    /\ svcStartType' =
           IF kind = "ok" /\ cmd = CmdEnable THEN "AUTO_START" ELSE svcStartType
    /\ peerList' = IF kind = "ok" /\ cmd = CmdConfig THEN arg ELSE peerList
    /\ utc' = IF kind = "ok" /\ cmd = CmdResync THEN NtpTime ELSE utc

NoRun == UNCHANGED <<cmdLog, svcRunning, svcStartType, peerList, utc>>

\* a stack frame: the function, the place in it, and its local variables
Frame(fn, pc) ==
    [fn |-> fn, pc |-> pc, success |-> FALSE, output |-> <<>>,
     start_type |-> "", given |-> FALSE, server_list |-> <<>>]

Top == stack[Len(stack)]

At(fn, pc) == stack # <<>> /\ Top.fn = fn /\ Top.pc = pc

NoReturn == [fn |-> "", ok |-> FALSE, msg |-> <<>>, start_type |-> ""]

Answer(ok, msg) == [NoReturn EXCEPT !.fn = Top.fn, !.ok = ok, !.msg = msg]

\* the innermost call returns val to its caller
Return(val) ==
    /\ ret' = val
    /\ retLog' = Append(retLog, val)
    /\ stack' = SubSeq(stack, 1, Len(stack) - 1)
    /\ ntpResult' = IF Len(stack) = 1 THEN val ELSE ntpResult

\* the innermost call moves on
Goto(frame) ==
    /\ stack' = [stack EXCEPT ![Len(stack)] = frame]
    /\ UNCHANGED <<ret, retLog, ntpResult>>

\* the innermost call, going on as frame cont, calls callee
Call(cont, callee) ==
    /\ stack' = Append([stack EXCEPT ![Len(stack)] = cont], callee)
    /\ UNCHANGED <<ret, retLog, ntpResult>>

SyncFrame == <<admin, tzOffset, lastTime, result, hist, setSince, attempted,
               replaced, nOps, nTicks, call, prev, nCalls, appVars>>

\* the top-level operations and the server lists configure is called with
TopLevelOps == {"check_time_service_status", "enable_time_service",
                "start_time_service", "configure_ntp_server",
                "sync_time_immediately", "get_sync_status",
                "sync_system_time"}

ServerLists == {<<>>, <<"b.example", "a.example", "b.example">>}

NoCall == [fn |-> "none", given |-> FALSE, server_list |-> <<>>,
           failure |-> "fail"]

\* what the first two commands of the current top-level call printed
FirstSeen ==
    IF Len(cmdLog) >= 2 THEN <<cmdLog[1].out[1][2], cmdLog[2].out[1][2]>>
    ELSE <<>>

NoPrev == [fn |-> "none", clean |-> FALSE, seen |-> <<>>]

\* every command of the current top-level call exited with 0
AllOk == \A i \in DOMAIN cmdLog : cmdLog[i].kind = "ok"

\* a caller invokes an operation of WindowsTimeSync
Invoke(fn, given, server_list, failure) ==
    /\ stack = <<>>
    /\ nCalls < MaxCalls
    /\ nCalls' = nCalls + 1
    /\ (given \/ server_list = <<>>)
    /\ (fn = "configure_ntp_server" \/ (~given /\ server_list = <<>>))
    /\ stack' = <<[Frame(fn, "begin") EXCEPT !.given = given,
                                            !.server_list = server_list]>>
    /\ cmdLog' = <<>>
    /\ retLog' = <<>>
    /\ ret' = NoReturn
    /\ ntpResult' = [NoReturn EXCEPT !.fn = "pending"]
    /\ call' = [fn |-> fn, given |-> given, server_list |-> server_list,
                failure |-> failure]
    /\ prev' = IF ntpResult.ok /\ AllOk
               THEN [fn |-> call.fn, clean |-> TRUE, seen |-> FirstSeen]
               ELSE NoPrev
    /\ UNCHANGED <<clockVars, serviceVars, appVars>>

\* check_time_service_status, lines 70-72: 'sc query'
check_query(kind) ==
    /\ At("check_time_service_status", "begin")
    /\ Run(CmdQuery, <<>>, kind)
    /\ LET r == run_command(CmdQuery, kind)
       IN Goto([Top EXCEPT !.pc = "qc", !.success = r.ok, !.output = r.out])
    /\ UNCHANGED SyncFrame

\* the start type read from the output of 'sc qc', lines 78-85
StartTypeOf(config_success, config_output) ==
    IF ~config_success THEN "unknown"
    ELSE IF InOutput("DISABLED", config_output) THEN "disabled"
    ELSE IF InOutput("AUTO_START", config_output) THEN "automatic"
    ELSE IF InOutput("DEMAND_START", config_output) THEN "manual"
    ELSE "unknown"

\* the (is_running, message) of lines 87-95
StatusOf(success, output) ==
    IF success
    THEN IF InOutput("RUNNING", output)
         THEN [ok |-> TRUE, msg |-> <<Lit("service running")>>]
         ELSE IF InOutput("STOPPED", output)
         THEN [ok |-> FALSE, msg |-> <<Lit("service stopped")>>]
         ELSE [ok |-> FALSE, msg |-> <<Lit("service state unknown: ")>> \o output]
    ELSE [ok |-> FALSE, msg |-> <<Lit("cannot check service state: ")>> \o output]

\* check_time_service_status, lines 74-95: 'sc qc' and the answer
check_qc(kind) ==
    /\ At("check_time_service_status", "qc")
    /\ Run(CmdQc, <<>>, kind)
    /\ LET c == run_command(CmdQc, kind)
           st == StatusOf(Top.success, Top.output)
       IN Return([Answer(st.ok, st.msg) EXCEPT
                      !.start_type = StartTypeOf(c.ok, c.out)])
    /\ UNCHANGED SyncFrame

\* enable_time_service, lines 104-115
enable_time_service(kind) ==
    /\ At("enable_time_service", "begin")
    /\ IF ~admin
       THEN /\ NoRun
            /\ Return(Answer(FALSE, <<Lit("need admin to enable service")>>))
       ELSE /\ Run(CmdEnable, <<>>, kind)
            /\ LET r == run_command(CmdEnable, kind)
               IN IF r.ok
                  THEN Return(Answer(TRUE, <<Lit("service set to automatic")>>))
                  ELSE Return(Answer(FALSE,
                                     <<Lit("enable failed: ")>> \o r.out))
    /\ UNCHANGED SyncFrame

\* start_time_service, lines 124-129
start_begin ==
    /\ At("start_time_service", "begin")
    /\ IF ~admin
       THEN Return(Answer(FALSE, <<Lit("need admin to start service")>>))
       ELSE Call([Top EXCEPT !.pc = "checked"],
                 Frame("check_time_service_status", "begin"))
    /\ NoRun
    /\ UNCHANGED SyncFrame

\* start_time_service going on to start the service whatever the status
\* check answered
start_checked_ignores_running ==
    /\ At("start_time_service", "checked")
    /\ LET here == [Top EXCEPT !.start_type = ret.start_type]
       IN IF ret.start_type = "disabled"
          THEN Call([here EXCEPT !.pc = "enabled"],
                    Frame("enable_time_service", "begin"))
          ELSE Goto([here EXCEPT !.pc = "start"])
    /\ NoRun
    /\ UNCHANGED SyncFrame

\* start_time_service, lines 129-135
start_checked ==
    /\ At("start_time_service", "checked")
    /\ LET here == [Top EXCEPT !.start_type = ret.start_type]
       IN IF ret.ok
          THEN Return(Answer(TRUE, ret.msg))
          ELSE IF ret.start_type = "disabled"
          THEN Call([here EXCEPT !.pc = "enabled"],
                    Frame("enable_time_service", "begin"))
          ELSE Goto([here EXCEPT !.pc = "start"])
    /\ NoRun
    /\ UNCHANGED SyncFrame

\* start_time_service starting the service whatever enable_time_service
\* answered
start_enabled_ignores_failure ==
    /\ At("start_time_service", "enabled")
    /\ Goto([Top EXCEPT !.pc = "start"])
    /\ NoRun
    /\ UNCHANGED SyncFrame

\* start_time_service answering right after enable_time_service succeeded,
\* without starting the service
start_enabled_returns_early ==
    /\ At("start_time_service", "enabled")
    /\ IF ~ret.ok
       THEN Return(Answer(FALSE, <<Lit("cannot enable service: ")>> \o ret.msg))
       ELSE Return(Answer(TRUE, ret.msg))
    /\ NoRun
    /\ UNCHANGED SyncFrame

\* start_time_service, lines 135-137
start_enabled ==
    /\ At("start_time_service", "enabled")
    /\ IF ~ret.ok
       THEN Return(Answer(FALSE, <<Lit("cannot enable service: ")>> \o ret.msg))
       ELSE Goto([Top EXCEPT !.pc = "start"])
    /\ NoRun
    /\ UNCHANGED SyncFrame

\* "服务已经启动" in output or "service is already running" in output.lower()
AlreadyRunning(output) == InOutput("service is already running", output)

\* start_time_service, lines 139-147: the first 'net start'
start_start(kind) ==
    /\ At("start_time_service", "start")
    /\ Run(CmdStart, <<>>, kind)
    /\ LET r == run_command(CmdStart, kind)
       IN IF r.ok
          THEN Return(Answer(TRUE, <<Lit("service started")>>))
          ELSE IF AlreadyRunning(r.out)
          THEN Return(Answer(TRUE, <<Lit("service already running")>>))
          ELSE Goto([Top EXCEPT !.pc = "register", !.success = r.ok,
                                !.output = r.out])
    /\ UNCHANGED SyncFrame

\* start_time_service starting the service again whatever 'w32tm /register'
\* answered
start_register_retries_anyway(kind) ==
    /\ At("start_time_service", "register")
    /\ Run(CmdRegister, <<>>, kind)
    /\ IF Top.start_type = "disabled"
       THEN Call([Top EXCEPT !.pc = "reenabled"],
                 Frame("enable_time_service", "begin"))
       ELSE Goto([Top EXCEPT !.pc = "retry"])
    /\ UNCHANGED SyncFrame

\* start_time_service reporting what 'w32tm /register' printed when it failed
start_register_reports_registration(kind) ==
    /\ At("start_time_service", "register")
    /\ Run(CmdRegister, <<>>, kind)
    /\ LET reg == run_command(CmdRegister, kind)
       IN IF reg.ok
          THEN IF Top.start_type = "disabled"
               THEN Call([Top EXCEPT !.pc = "reenabled"],
                         Frame("enable_time_service", "begin"))
               ELSE Goto([Top EXCEPT !.pc = "retry"])
          ELSE Return(Answer(FALSE,
                             <<Lit("start service failed: ")>> \o reg.out))
    /\ UNCHANGED SyncFrame

\* start_time_service, lines 148-154 and 161: 'w32tm /register'
start_register(kind) ==
    /\ At("start_time_service", "register")
    /\ Run(CmdRegister, <<>>, kind)
    /\ LET reg == run_command(CmdRegister, kind)
       IN IF reg.ok
          THEN IF Top.start_type = "disabled"
               THEN Call([Top EXCEPT !.pc = "reenabled"],
                         Frame("enable_time_service", "begin"))
               ELSE Goto([Top EXCEPT !.pc = "retry"])
          ELSE Return(Answer(FALSE,
                             <<Lit("start service failed: ")>> \o Top.output))
    /\ UNCHANGED SyncFrame

\* start_time_service, line 154: the answer of enable_time_service is dropped
start_reenabled ==
    /\ At("start_time_service", "reenabled")
    /\ Goto([Top EXCEPT !.pc = "retry"])
    /\ NoRun
    /\ UNCHANGED SyncFrame

\* start_time_service, lines 156-161: the second 'net start'
start_retry(kind) ==
    /\ At("start_time_service", "retry")
    /\ Run(CmdStart, <<>>, kind)
    /\ LET r == run_command(CmdStart, kind)
       IN IF r.ok
          THEN Return(Answer(TRUE, <<Lit("service registered and started")>>))
          ELSE Return(Answer(FALSE,
                             <<Lit("start service failed: ")>> \o r.out))
    /\ UNCHANGED SyncFrame

\* configure_ntp_server, lines 173-178
configure_begin ==
    /\ At("configure_ntp_server", "begin")
    /\ IF ~admin
       THEN Return(Answer(FALSE, <<Lit("need admin to configure servers")>>))
       ELSE Call([Top EXCEPT !.pc = "started"],
                 Frame("start_time_service", "begin"))
    /\ NoRun
    /\ UNCHANGED SyncFrame

\* configure_ntp_server taking the built-in servers for an empty list too
\* ('if not server_list')
configure_started_defaults_when_empty ==
    /\ At("configure_ntp_server", "started")
    /\ IF ~ret.ok
       THEN Return(Answer(FALSE, <<Lit("start service failed: ")>> \o ret.msg))
       ELSE Goto([Top EXCEPT
                      !.pc = "config",
                      !.server_list = IF Top.server_list # <<>>
                                      THEN Top.server_list
                                      ELSE SubSeq(ALIYUN_NTP_SERVERS, 1, 3)])
    /\ NoRun
    /\ UNCHANGED SyncFrame

\* configure_ntp_server, lines 178-183
configure_started ==
    /\ At("configure_ntp_server", "started")
    /\ IF ~ret.ok
       THEN Return(Answer(FALSE, <<Lit("start service failed: ")>> \o ret.msg))
       ELSE Goto([Top EXCEPT
                      !.pc = "config",
                      !.server_list = IF Top.given THEN Top.server_list
                                      ELSE SubSeq(ALIYUN_NTP_SERVERS, 1, 3)])
    /\ NoRun
    /\ UNCHANGED SyncFrame

\* configure_ntp_server restarting the service whatever the configuration
\* write answered
configure_config_ignores_failure(kind) ==
    /\ At("configure_ntp_server", "config")
    /\ Run(CmdConfig, Join(Top.server_list), kind)
    /\ Goto([Top EXCEPT !.pc = "restart"])
    /\ UNCHANGED SyncFrame

\* configure_ntp_server, lines 185-193: the configuration write
configure_config(kind) ==
    /\ At("configure_ntp_server", "config")
    /\ Run(CmdConfig, Join(Top.server_list), kind)
    /\ LET r == run_command(CmdConfig, kind)
       IN IF ~r.ok
          THEN Return(Answer(FALSE, <<Lit("configure failed: ")>> \o r.out))
          ELSE Goto([Top EXCEPT !.pc = "restart"])
    /\ UNCHANGED SyncFrame

\* configure_ntp_server, lines 195-201: the restart of the service
configure_restart(kind) ==
    /\ At("configure_ntp_server", "restart")
    /\ Run(CmdRestart, <<>>, kind)
    /\ LET r == run_command(CmdRestart, kind)
       IN IF ~r.ok
          THEN Return(Answer(FALSE, <<Lit("restart failed: ")>> \o r.out))
          ELSE Return(Answer(TRUE, <<Lit("configured servers: ")>>
                                       \o Join(Top.server_list)))
    /\ UNCHANGED SyncFrame

\* sync_time_immediately without its own privilege check
sync_begin_unchecked ==
    /\ At("sync_time_immediately", "begin")
    /\ Call([Top EXCEPT !.pc = "started"],
            Frame("start_time_service", "begin"))
    /\ NoRun
    /\ UNCHANGED SyncFrame

\* sync_time_immediately, lines 210-215
sync_begin ==
    /\ At("sync_time_immediately", "begin")
    /\ IF ~admin
       THEN Return(Answer(FALSE, <<Lit("need admin to sync")>>))
       ELSE Call([Top EXCEPT !.pc = "started"],
                 Frame("start_time_service", "begin"))
    /\ NoRun
    /\ UNCHANGED SyncFrame

\* sync_time_immediately forcing the resync whatever start_time_service
\* answered
sync_started_ignores_failure ==
    /\ At("sync_time_immediately", "started")
    /\ Goto([Top EXCEPT !.pc = "resync"])
    /\ NoRun
    /\ UNCHANGED SyncFrame

\* sync_time_immediately, lines 215-217
sync_started ==
    /\ At("sync_time_immediately", "started")
    /\ IF ~ret.ok
       THEN Return(Answer(FALSE, <<Lit("start service failed: ")>> \o ret.msg))
       ELSE Goto([Top EXCEPT !.pc = "resync"])
    /\ NoRun
    /\ UNCHANGED SyncFrame

\* sync_time_immediately answering success whatever the resync answered
sync_resync_swallows_failure(kind) ==
    /\ At("sync_time_immediately", "resync")
    /\ Run(CmdResync, <<>>, kind)
    /\ LET r == run_command(CmdResync, kind)
       IN Return(Answer(TRUE, <<Lit("sync succeeded: ")>> \o r.out))
    /\ UNCHANGED SyncFrame

\* sync_time_immediately, lines 219-226: the forced resync
sync_resync(kind) ==
    /\ At("sync_time_immediately", "resync")
    /\ Run(CmdResync, <<>>, kind)
    /\ LET r == run_command(CmdResync, kind)
       IN IF ~r.ok
          THEN Return(Answer(FALSE, <<Lit("sync failed: ")>> \o r.out))
          ELSE Return(Answer(TRUE, <<Lit("sync succeeded: ")>> \o r.out))
    /\ UNCHANGED SyncFrame

\* get_sync_status, lines 235-241
get_sync_status(kind) ==
    /\ At("get_sync_status", "begin")
    /\ Run(CmdStatus, <<>>, kind)
    /\ LET r == run_command(CmdStatus, kind)
       IN IF ~r.ok
          THEN Return(Answer(FALSE, <<Lit("get status failed: ")>> \o r.out))
          ELSE Return(Answer(TRUE, r.out))
    /\ UNCHANGED SyncFrame

\* sync_system_time, line 254: configure_ntp_server() with no argument
full_begin ==
    /\ At("sync_system_time", "begin")
    /\ Call([Top EXCEPT !.pc = "configured"],
            Frame("configure_ntp_server", "begin"))
    /\ NoRun
    /\ UNCHANGED SyncFrame

\* what sync_system_time answers when its configuration stage failed, line 256
FullConfigFailed(config_message) ==
    <<Lit("configure failed: ")>> \o config_message

\* sync_system_time going on to the sync stage whatever the configuration
\* stage answered
full_configured_ignores_failure ==
    /\ At("sync_system_time", "configured")
    /\ Call([Top EXCEPT !.pc = "synced", !.output = ret.msg],
            Frame("sync_time_immediately", "begin"))
    /\ NoRun
    /\ UNCHANGED SyncFrame

\* sync_system_time, lines 254-262
full_configured ==
    /\ At("sync_system_time", "configured")
    /\ IF ~ret.ok
       THEN Return(Answer(FALSE, FullConfigFailed(ret.msg)))
       ELSE Call([Top EXCEPT !.pc = "synced", !.output = ret.msg],
                 Frame("sync_time_immediately", "begin"))
    /\ NoRun
    /\ UNCHANGED SyncFrame

\* sync_system_time answering success whatever the sync stage answered
full_synced_ignores_failure ==
    /\ At("sync_system_time", "synced")
    /\ Return(Answer(TRUE, <<Lit("aliyun sync succeeded: ")>>
                               \o Top.output \o <<Lit("; ")>> \o ret.msg))
    /\ NoRun
    /\ UNCHANGED SyncFrame

\* sync_system_time, lines 262-266
full_synced ==
    /\ At("sync_system_time", "synced")
    /\ IF ~ret.ok
       THEN Return(Answer(FALSE, <<Lit("sync failed: ")>> \o ret.msg))
       ELSE Return(Answer(TRUE, <<Lit("aliyun sync succeeded: ")>>
                                    \o Top.output \o <<Lit("; ")>> \o ret.msg))
    /\ NoRun
    /\ UNCHANGED SyncFrame

----------------------------------------------------------------------------
(* OperationHistory.  A record keeps its type, old and new value; its      *)
(* timestamp is the number of the add_operation call that made it.         *)

\* the default of max_history, the one the main window uses
DefaultMaxHistory == 10

OperationTypes == {"adjust", "sync"}

\* what get_last_operation answers before it was ever called
NotAsked == [type |-> "not asked"]

\* add_operation keeping the oldest records and dropping the new one
add_operation_drops_newest(operation_type, old_value, new_value) ==
    /\ nAdds < MaxAdds
    /\ nAdds' = nAdds + 1
    /\ LET record == [timestamp |-> nAdds + 1, type |-> operation_type,
                      old_value |-> old_value, new_value |-> new_value]
           appended == Append(history, record)
       IN /\ history' = IF Len(appended) > max_history
                        THEN SubSeq(appended, 1, Len(appended) - 1)
                        ELSE appended
          /\ added' = Append(added, record)
    /\ UNCHANGED <<max_history, lastOperation>>

\* OperationHistory.add_operation, lines 256-269: append, then one pop(0)
\* when the list is longer than max_history
add_operation(operation_type, old_value, new_value) ==
    /\ nAdds < MaxAdds
    /\ nAdds' = nAdds + 1
    /\ LET record == [timestamp |-> nAdds + 1, type |-> operation_type,
                      old_value |-> old_value, new_value |-> new_value]
           appended == Append(history, record)
       IN /\ history' = IF Len(appended) > max_history
                        THEN Tail(appended)
                        ELSE appended
          /\ added' = Append(added, record)
    /\ UNCHANGED <<max_history, lastOperation>>

\* get_last_operation answering the oldest record held
get_last_operation_oldest ==
    /\ lastOperation' = IF history # <<>> THEN history[1] ELSE None
    /\ UNCHANGED <<max_history, history, added, nAdds>>

\* OperationHistory.get_last_operation, line 273
get_last_operation ==
    /\ lastOperation' = IF history # <<>> THEN history[Len(history)] ELSE None
    /\ UNCHANGED <<max_history, history, added, nAdds>>

\* OperationHistory.clear_history, line 281
clear_history ==
    /\ history' = <<>>
    /\ added' = <<>>
    /\ UNCHANGED <<max_history, lastOperation, nAdds>>

\* OperationHistory.__init__(max_history)
InitHistory(n) ==
    /\ max_history = n
    /\ history = <<>>
    /\ added = <<>>
    /\ lastOperation = NotAsked
    /\ nAdds = 0

\* TimeToolMainWindow.__init__: no thread, the sync button enabled, the undo
\* button disabled (line 222) until update_time_display has run
InitUi ==
    /\ ntp_button = TRUE
    /\ undo_button = FALSE
    /\ ntp_thread = "none"
    /\ signal = None
    /\ old_time = None
    /\ inFlight = 0
    /\ duringSync = 0
    /\ slotAtStart = None

\* the history the main window constructs, line 54, and its widgets
InitApp == InitHistory(DefaultMaxHistory) /\ InitUi

\* TimeManager.__init__, on a machine in any of the time zones
InitClock ==
    /\ tzOffset \in TzOffsets
    /\ utc \in {<<0, 0>>, <<0, TickMs>>, <<SecPerDay, 0>>}
    /\ lastTime = None
    /\ result = [ok |-> TRUE, msg |-> ""]
    /\ hist = <<NoStep, NoStep>>
    /\ setSince = FALSE
    /\ attempted = FALSE
    /\ replaced = None
    /\ nOps = 0
    /\ nTicks = 0

\* WindowsTimeSync.__init__: no call in progress
InitSync ==
    /\ peerList = <<>>
    /\ stack = <<>>
    /\ ret = NoReturn
    /\ cmdLog = <<>>
    /\ retLog = <<>>
    /\ ntpResult = [NoReturn EXCEPT !.fn = "none"]
    /\ call = NoCall
    /\ prev = NoPrev
    /\ nCalls = 0

\* the Clock Controller alone: the time service is stopped, start on demand
Init ==
    /\ admin \in BOOLEAN
    /\ InitClock
    /\ InitSync
    /\ InitApp
    /\ svcRunning = FALSE
    /\ svcStartType = "DEMAND_START"

Next ==
    \/ \E t \in SetInputs, os \in OsOutcomes : SetSystemTime(t, os)
    \/ \E a \in AdjustArgs, os \in OsOutcomes :
           adjust_time(a[1], a[2], a[3], os)
    \/ \E os \in OsOutcomes : undo_last_change(os)
    \/ Tick

Spec == Init /\ [][Next]_vars

\* the Network Time Synchronizer alone, with the service in any state
InitNtp ==
    /\ admin \in BOOLEAN
    /\ tzOffset = 0
    /\ utc = <<0, TickMs>>
    /\ lastTime = None
    /\ result = [ok |-> TRUE, msg |-> ""]
    /\ hist = <<NoStep, NoStep>>
    /\ setSince = FALSE
    /\ attempted = FALSE
    /\ replaced = None
    /\ nOps = 0
    /\ nTicks = 0
    /\ InitSync
    /\ InitApp
    /\ svcRunning \in BOOLEAN
    /\ svcStartType \in StartTypes

\* one step of sync_system_time and of the operations it is made of
SyncStep ==
    \/ \E kind \in CmdKinds :
           \/ check_query(kind)
           \/ check_qc(kind)
           \/ enable_time_service(kind)
           \/ start_start(kind)
           \/ start_register(kind)
           \/ start_retry(kind)
           \/ configure_config(kind)
           \/ configure_restart(kind)
           \/ sync_resync(kind)
    \/ start_begin
    \/ start_checked
    \/ start_enabled
    \/ start_reenabled
    \/ configure_begin
    \/ configure_started
    \/ sync_begin
    \/ sync_started
    \/ full_begin
    \/ full_configured
    \/ full_synced

\* one step of the operation in progress
NtpStep ==
    \/ SyncStep
    \/ \E kind \in CmdKinds : get_sync_status(kind)

NextNtp ==
    \/ \E fn \in TopLevelOps, given \in BOOLEAN, l \in ServerLists,
          failure \in FailureKinds :
           Invoke(fn, given, l, failure)
    \/ NtpStep

SpecNtp == InitNtp /\ [][NextNtp]_vars

----------------------------------------------------------------------------
(* NTPSyncThread and the main window.  The thread's run() is the outermost *)
(* frame of the stack; a handler of the main window runs as one step of    *)
(* the main thread, with its dialogs answered Yes.                         *)

\* QThread.start(), line 350: a fresh NTPSyncThread, with its own
\* WindowsTimeSync, begins run(); commands that fail during it fail as failure
StartThread(failure) ==
    /\ nCalls < MaxCalls
    /\ nCalls' = nCalls + 1
    /\ stack' = <<Frame("run", "begin")>>
    /\ cmdLog' = <<>>
    /\ retLog' = <<>>
    /\ ret' = NoReturn
    /\ ntpResult' = [NoReturn EXCEPT !.fn = "pending"]
    /\ call' = [NoCall EXCEPT !.fn = "run", !.failure = failure]
    /\ prev' = NoPrev
    /\ ntp_thread' = "running"
    /\ signal' = None

\* a thread started with nobody watching its button, lines 28-31 and 350
thread_start(failure) ==
    /\ stack = <<>>
    /\ StartThread(failure)
    /\ UNCHANGED <<clockVars, serviceVars, historyVars, ntp_button,
                   undo_button, old_time, inFlight, duringSync, slotAtStart>>

\* NTPSyncThread.run clearing the undo record of the TimeManager it was given
thread_run_clears_slot ==
    /\ At("run", "begin")
    /\ Call([Top EXCEPT !.pc = "emit"], Frame("sync_system_time", "begin"))
    /\ NoRun
    /\ lastTime' = None
    /\ UNCHANGED <<admin, tzOffset, result, hist, setSince, attempted,
                   replaced, nOps, nTicks, call, prev, nCalls, appVars>>

\* NTPSyncThread.run, line 34: the call of sync_system_time
thread_run ==
    /\ At("run", "begin")
    /\ Call([Top EXCEPT !.pc = "emit"], Frame("sync_system_time", "begin"))
    /\ NoRun
    /\ UNCHANGED SyncFrame

\* NTPSyncThread.run emitting nothing when the sync failed
thread_emit_on_success_only ==
    /\ At("run", "emit")
    /\ stack' = <<>>
    /\ ntpResult' = ret
    /\ signal' = IF ret.ok THEN [ok |-> ret.ok, msg |-> ret.msg] ELSE None
    /\ ntp_thread' = IF ret.ok THEN "emitted" ELSE "delivered"
    /\ NoRun
    /\ UNCHANGED <<ret, retLog, call, prev, nCalls>>
    /\ UNCHANGED <<admin, tzOffset, lastTime, result, hist, setSince,
                   attempted, replaced, nOps, nTicks, historyVars, ntp_button,
                   undo_button, old_time, inFlight, duringSync, slotAtStart>>

\* NTPSyncThread.run, line 35: finished.emit(success, message), queued for
\* the main thread, and the end of run()
thread_emit ==
    /\ At("run", "emit")
    /\ stack' = <<>>
    /\ ntpResult' = ret
    /\ signal' = [ok |-> ret.ok, msg |-> ret.msg]
    /\ ntp_thread' = "emitted"
    /\ NoRun
    /\ UNCHANGED <<ret, retLog, call, prev, nCalls>>
    /\ UNCHANGED <<admin, tzOffset, lastTime, result, hist, setSince,
                   attempted, replaced, nOps, nTicks, historyVars, ntp_button,
                   undo_button, old_time, inFlight, duringSync, slotAtStart>>

\* one step of the worker thread
ThreadStep == thread_run \/ thread_emit \/ SyncStep

\* the days of an adjust button: "future 3 days", line 180
UiDays == {3}

\* how the commands of a thread fail, when they do
UiFailures == {"timeout"}

\* what the OS answers to the clock writes of the main window
UiOsOutcomes == {"ok", "fail"}

\* one more TimeManager call of the main window since the thread started
CountDuringSync == duringSync' = duringSync + 1

\* TimeToolMainWindow.adjust_time, lines 288-325: a click on an adjust button
ui_adjust_time(days, os) ==
    IF ~admin
    THEN UNCHANGED vars
    ELSE /\ nOps < MaxUiOps
         /\ nOps' = nOps + 1
         /\ LET current_time == get_local_time
                new_time == AddSeconds(current_time, TimeDelta(days, 0, 0))
            IN /\ set_system_time("adjust", <<days, 0, 0>>, new_time,
                                  lastTime, lastTime, os)
               /\ add_operation("adjust", current_time,
                                IF os = "ok" THEN new_time ELSE None)
         /\ CountDuringSync
         /\ UNCHANGED <<admin, tzOffset, nTicks, serviceVars, syncVars,
                        ntp_button, undo_button, ntp_thread, signal, old_time,
                        inFlight, slotAtStart>>

\* TimeToolMainWindow.undo_last_change, lines 384-404: a click on the undo
\* button, which is enabled
ui_undo_last_change(os) ==
    /\ undo_button
    /\ IF ~can_undo
       THEN UNCHANGED vars
       ELSE /\ nOps < MaxUiOps
            /\ nOps' = nOps + 1
            /\ set_system_time("undo", None, lastTime, None, lastTime, os)
            /\ CountDuringSync
            /\ UNCHANGED <<admin, tzOffset, nTicks, serviceVars, syncVars,
                           historyVars, ntp_button, undo_button, ntp_thread,
                           signal, old_time, inFlight, slotAtStart>>

\* TimeToolMainWindow.update_time_display, lines 280-286: the timer
update_time_display ==
    /\ undo_button' = can_undo
    /\ UNCHANGED <<clockVars, serviceVars, syncVars, historyVars, ntp_button,
                   ntp_thread, signal, old_time, inFlight, duringSync,
                   slotAtStart>>

\* sync_ntp_time starting the thread with the button left enabled
sync_ntp_time_leaves_button(failure) ==
    /\ ntp_button
    /\ IF ~admin
       THEN UNCHANGED vars
       ELSE /\ old_time' = get_local_time
            /\ StartThread(failure)
            /\ inFlight' = inFlight + 1
            /\ duringSync' = 0
            /\ slotAtStart' = lastTime
            /\ UNCHANGED <<clockVars, serviceVars, historyVars, undo_button,
                           ntp_button>>

\* TimeToolMainWindow.sync_ntp_time, lines 328-358: a click on the sync
\* button, which is enabled
sync_ntp_time(failure) ==
    /\ ntp_button
    /\ IF ~admin
       THEN UNCHANGED vars
       ELSE /\ old_time' = get_local_time
            /\ ntp_button' = FALSE
            /\ StartThread(failure)
            /\ inFlight' = inFlight + 1
            /\ duringSync' = 0
            /\ slotAtStart' = lastTime
            /\ UNCHANGED <<clockVars, serviceVars, historyVars, undo_button>>

\* TimeToolMainWindow.on_ntp_sync_finished, lines 360-382: the queued
\* finished signal reaches the main thread
on_ntp_sync_finished ==
    /\ ntp_thread = "emitted"
    /\ ntp_button' = TRUE
    /\ add_operation("sync", old_time,
                     IF signal.ok THEN get_local_time ELSE None)
    /\ ntp_thread' = "delivered"
    /\ inFlight' = inFlight - 1
    /\ UNCHANGED <<clockVars, serviceVars, syncVars, undo_button, signal,
                   old_time, duringSync, slotAtStart>>

\* the main window on a machine whose time service is stopped
InitUiApp ==
    /\ admin \in BOOLEAN
    /\ tzOffset = 0
    /\ utc = <<0, TickMs>>
    /\ lastTime = None
    /\ result = [ok |-> TRUE, msg |-> ""]
    /\ hist = <<NoStep, NoStep>>
    /\ setSince = FALSE
    /\ attempted = FALSE
    /\ replaced = None
    /\ nOps = 0
    /\ nTicks = 0
    /\ InitSync
    /\ InitApp
    /\ svcRunning = FALSE
    /\ svcStartType = "DISABLED"

NextUi ==
    \/ \E days \in UiDays, os \in UiOsOutcomes : ui_adjust_time(days, os)
    \/ \E os \in UiOsOutcomes : ui_undo_last_change(os)
    \/ update_time_display
    \/ \E failure \in UiFailures : sync_ntp_time(failure)
    \/ on_ntp_sync_finished
    \/ ThreadStep

SpecUi == InitUiApp /\ [][NextUi]_vars

\* every WindowsTimeSync operation and the thread, each step taken in the
\* end: a command returns within its timeout (line 50) and a started thread
\* is scheduled
NextNtpThread ==
    \/ NextNtp
    \/ \E failure \in FailureKinds : thread_start(failure)
    \/ thread_run
    \/ thread_emit

SpecNtpFair ==
    InitNtp /\ [][NextNtpThread]_vars /\ WF_vars(ThreadStep \/ NtpStep)

\* the rest of the program at rest, for the specifications of one part
Idle ==
    /\ admin = FALSE
    /\ tzOffset = 0
    /\ utc = <<0, 0>>
    /\ lastTime = None
    /\ result = [ok |-> TRUE, msg |-> ""]
    /\ hist = <<NoStep, NoStep>>
    /\ setSince = FALSE
    /\ attempted = FALSE
    /\ replaced = None
    /\ nOps = 0
    /\ nTicks = 0
    /\ InitSync
    /\ svcRunning = FALSE
    /\ svcStartType = "DEMAND_START"

\* an OperationHistory alone, with any limit up to MaxHistory
InitOperationHistory ==
    /\ Idle
    /\ InitUi
    /\ \E n \in 0..MaxHistory : InitHistory(n)

NextOperationHistory ==
    \/ /\ \E type \in OperationTypes : add_operation(type, None, None)
       /\ UNCHANGED <<clockVars, serviceVars, syncVars, uiVars>>
    \/ /\ get_last_operation
       /\ UNCHANGED <<clockVars, serviceVars, syncVars, uiVars>>
    \/ /\ clear_history
       /\ UNCHANGED <<clockVars, serviceVars, syncVars, uiVars>>

SpecOperationHistory ==
    InitOperationHistory /\ [][NextOperationHistory]_vars

----------------------------------------------------------------------------
(* Properties of the Clock Controller.  hist[1] is the step that led to    *)
(* the current state, hist[2] the step before it.                          *)

SetOps == {"set", "adjust", "undo"}

\* C1: after any call of undo_last_change has returned, can_undo is false
C1_UndoLeavesNoUndo == hist[1].op = "undo" => ~can_undo

\* C2: of two undo_last_change calls in a row, the second fails with
\* NothingToUndo and issues no clock write
C2_SecondUndoFails ==
    (hist[1].op = "undo" /\ hist[2].op = "undo")
        => (hist[1].msg = MsgNothingToUndo /\ ~hist[1].wrote)

\* C3: whenever set_system_time returns success (called directly, by
\* adjust_time or by undo_last_change), can_undo is true and the remembered
\* value is the local time read immediately before the call
C3_SuccessRemembersPrior ==
    (hist[1].op \in SetOps /\ hist[1].ok)
        => (can_undo /\ lastTime = hist[1].preLocal)

C3_Witness ==
    /\ hist[1].op = "set" /\ hist[1].ok
    /\ lastTime = hist[1].preLocal
    /\ lastTime # get_local_time

\* C4: adjust_time(days=3) then adjust_time(days=-3), both succeeding with no
\* tick in between, leave the local clock at its value before the first
\* call, to whole seconds, in every time zone
C4_AdjustRoundTrip ==
    (/\ hist[2].op = "adjust" /\ hist[2].arg = <<3, 0, 0>> /\ hist[2].ok
     /\ hist[1].op = "adjust" /\ hist[1].arg = <<0 - 3, 0, 0>> /\ hist[1].ok)
        => get_local_time = TruncSec(hist[2].preLocal)

C6_SetThenReadLocal ==
    (hist[1].op = "set" /\ hist[1].ok)
        => get_local_time = TruncSec(hist[1].arg)

\* C7: a successful set or adjust followed at once by a successful undo puts
\* the local clock back (to the second) where it was just before the set
C7_UndoRestores ==
    (/\ hist[2].op \in {"set", "adjust"} /\ hist[2].ok
     /\ hist[1].op = "undo" /\ hist[1].ok)
        => Sec(get_local_time) = Sec(hist[2].preLocal)

\* C8: after a privileged set_system_time whose OS write failed, lastTime is
\* non-null and equals the local time before the attempt, and the clock is
\* unchanged
C8_FailedWriteStillRemembers ==
    (/\ hist[1].op \in SetOps
     /\ hist[1].msg \in {MsgSystemCallFailed, MsgSystemCallException})
        => (can_undo /\ lastTime = hist[1].preLocal /\ utc = hist[1].preUtc)

C8_Witness ==
    /\ hist[1].op = "set" /\ hist[1].msg = MsgSystemCallFailed
    /\ hist[1].preLast = None
    /\ lastTime = hist[1].preLocal

\* C9: undo_last_change called while lastTime is null fails with
\* NothingToUndo, issues no clock write and leaves clock and lastTime alone
C9_UndoOnEmptySlot ==
    (hist[1].op = "undo" /\ hist[1].preLast = None)
        => (/\ ~hist[1].ok /\ hist[1].msg = MsgNothingToUndo
            /\ ~hist[1].wrote
            /\ utc = hist[1].preUtc
            /\ lastTime = None)

C9_Witness ==
    /\ admin
    /\ hist[1].op = "undo" /\ hist[1].preLast = None
    /\ hist[1].msg = MsgNothingToUndo

\* C24: set_system_time and adjust_time called without privilege fail with
\* PermissionDenied, issue no clock write and leave the clock and lastTime
\* as they were; a controller without privilege never has can_undo true
C24_UnprivilegedChangesNothing ==
    /\ (~admin /\ hist[1].op \in {"set", "adjust"})
           => /\ ~hist[1].ok /\ hist[1].msg = MsgPermissionDenied
              /\ result = [ok |-> FALSE, msg |-> MsgPermissionDenied]
              /\ ~hist[1].wrote
              /\ utc = hist[1].preUtc
              /\ lastTime = hist[1].preLast
    /\ ~admin => (~can_undo /\ ~attempted)

C24_Witness ==
    /\ ~admin
    /\ hist[2].op = "set" /\ hist[2].msg = MsgPermissionDenied
    /\ hist[1].op = "adjust" /\ hist[1].msg = MsgPermissionDenied
    /\ utc = hist[2].preUtc
    /\ ~can_undo

\* the step was an undo_last_change that found a remembered value
UndoStep(step) == step.op = "undo" /\ step.preLast # None

LostEarlier(step, before) ==
    /\ before.op \in SetOps /\ before.ok
    /\ step.op \in {"set", "adjust"} /\ ~step.ok
    /\ admin

----------------------------------------------------------------------------
(* Properties of the Network Time Synchronizer *)

\* the top-level operation in progress, or the last one finished
CurrentOp == IF stack # <<>> THEN stack[1].fn ELSE ntpResult.fn

Issued(cmd) == \E i \in DOMAIN cmdLog : cmdLog[i].cmd = cmd

\* the returns of configure_ntp_server inside a sync_system_time call that
\* reported failure
FailedConfigStage ==
    {i \in DOMAIN retLog :
        /\ CurrentOp = "sync_system_time"
        /\ retLog[i].fn = "configure_ntp_server"
        /\ ~retLog[i].ok}

\* C10 (as claimed): when the configuration stage of sync_system_time fails,
\* no resync command is ever issued and sync_system_time returns exactly the
\* message configure_ntp_server returned
C10_ConfigFailureVerbatim ==
    \A i \in FailedConfigStage :
        /\ ~Issued(CmdResync)
        /\ stack = <<>> => (~ntpResult.ok /\ ntpResult.msg = retLog[i].msg)

\* C10 (amended): when the configuration stage of sync_system_time fails, no
\* resync command is ever issued and sync_system_time returns failure with
\* the message of configure_ntp_server after the fixed label
\* "configure failed: "
C10_ConfigFailurePrefixed ==
    \A i \in FailedConfigStage :
        /\ ~Issued(CmdResync)
        /\ stack = <<>> =>
               /\ ~ntpResult.ok
               /\ ntpResult.msg = <<Lit("configure failed: ")>> \o retLog[i].msg

C10_Witness ==
    /\ stack = <<>>
    /\ FailedConfigStage # {}
    /\ \E i \in DOMAIN cmdLog : cmdLog[i].cmd = CmdConfig /\ cmdLog[i].kind # "ok"

\* the commands of the current top-level call, in the order issued
CmdNames == [i \in DOMAIN cmdLog |-> cmdLog[i].cmd]

Finished(fn) == stack = <<>> /\ ntpResult.fn = fn

\* C11: with privilege held, the service stopped and Disabled and every
\* command succeeding, start_time_service issues the enable command and then
\* the start command and returns success, and a check_time_service_status
\* that follows reports the service running with startup mode automatic
C11_DisabledThenStarted ==
    /\ (/\ Finished("start_time_service") /\ admin /\ AllOk
        /\ FirstSeen = <<"STOPPED", "DISABLED">>)
           => /\ CmdNames = <<CmdQuery, CmdQc, CmdEnable, CmdStart>>
              /\ ntpResult.ok
              /\ svcRunning /\ svcStartType = "AUTO_START"
    /\ (/\ Finished("check_time_service_status") /\ AllOk
        /\ prev = [fn |-> "start_time_service", clean |-> TRUE,
                   seen |-> <<"STOPPED", "DISABLED">>])
           => (ntpResult.ok /\ ntpResult.start_type = "automatic")

C11_Witness ==
    /\ Finished("check_time_service_status") /\ AllOk
    /\ prev = [fn |-> "start_time_service", clean |-> TRUE,
               seen |-> <<"STOPPED", "DISABLED">>]
    /\ ntpResult.ok /\ ntpResult.start_type = "automatic"

\* the host names of a peer-list string, in the order written
HostsOf(server_string) ==
    LET hs == SelectSeq(server_string, LAMBDA t : t[1] = "host")
    IN [i \in DOMAIN hs |-> hs[i][2]]

\* the servers the current top-level call is to configure
ServersToWrite ==
    IF call.given THEN call.server_list ELSE ALIYUN_NTP_SERVERS

\* a nested call of fn has returned success in the current top-level call
Succeeded(fn) == \E j \in DOMAIN retLog : retLog[j].fn = fn /\ retLog[j].ok

\* C12: the configuration write of configure_ntp_server carries exactly the
\* given host names, in the given order and with duplicates kept; the three
\* built-in servers are written only when no list was given; an empty list
\* is written as an empty peer list, and the write is issued for it too
C12_PeerListAsGiven ==
    /\ \A i \in DOMAIN cmdLog :
           cmdLog[i].cmd = CmdConfig =>
               /\ HostsOf(cmdLog[i].arg) = ServersToWrite
               /\ Len(ServersToWrite) = 0 => cmdLog[i].arg = <<>>
               /\ (cmdLog[i].kind = "ok" /\ i = Len(cmdLog))
                      => HostsOf(peerList) = ServersToWrite
    /\ (/\ Finished("configure_ntp_server")
        /\ Succeeded("start_time_service"))
           => Issued(CmdConfig)

C12_Witness ==
    /\ Finished("configure_ntp_server")
    /\ call.given /\ call.server_list = <<>>
    /\ \E i \in DOMAIN cmdLog :
           cmdLog[i].cmd = CmdConfig /\ cmdLog[i].kind = "ok"
                                     /\ cmdLog[i].arg = <<>>
    /\ peerList = <<>>

\* the messages that report missing privilege
NeedAdminTexts == {"need admin to enable service", "need admin to start service",
                   "need admin to configure servers", "need admin to sync"}

PermissionDenied(msg) ==
    \E i \in DOMAIN msg : msg[i][1] = "lit" /\ msg[i][2] \in NeedAdminTexts

\* the operations that check privilege themselves, and what they answer
\* without it
CheckedOps == {"enable_time_service", "start_time_service",
               "configure_ntp_server", "sync_time_immediately"}

NeedAdminText(fn) ==
    CASE fn = "enable_time_service" -> "need admin to enable service"
      [] fn = "start_time_service" -> "need admin to start service"
      [] fn = "configure_ntp_server" -> "need admin to configure servers"
      [] fn = "sync_time_immediately" -> "need admin to sync"

\* C13 (as claimed): every operation of WindowsTimeSync called without
\* privilege fails with a permission-denied message
C13_AllOpsNeedPrivilege ==
    (~admin /\ stack = <<>> /\ ntpResult.fn \in TopLevelOps)
        => (~ntpResult.ok /\ PermissionDenied(ntpResult.msg))

\* C13 (amended): without privilege enable_time_service, start_time_service,
\* configure_ntp_server and sync_time_immediately fail with their
\* permission-denied message and run no command, and sync_system_time fails
\* with the one of configure_ntp_server after its label;
\* check_time_service_status and get_sync_status check no privilege: they
\* run their commands and answer by what these return
C13_CheckedOpsNeedPrivilege ==
    (~admin /\ stack = <<>>) =>
        /\ ntpResult.fn \in CheckedOps
               => /\ ~ntpResult.ok
                  /\ ntpResult.msg = <<Lit(NeedAdminText(ntpResult.fn))>>
                  /\ cmdLog = <<>>
        /\ ntpResult.fn = "sync_system_time"
               => /\ ~ntpResult.ok
                  /\ ntpResult.msg = <<Lit("configure failed: "),
                                       Lit("need admin to configure servers")>>
                  /\ cmdLog = <<>>
        /\ ntpResult.fn = "check_time_service_status"
               => /\ CmdNames = <<CmdQuery, CmdQc>>
                  /\ ~PermissionDenied(ntpResult.msg)
                  /\ ntpResult.ok = (cmdLog[1].kind = "ok" /\ svcRunning)
        /\ ntpResult.fn = "get_sync_status"
               => /\ CmdNames = <<CmdStatus>>
                  /\ ~PermissionDenied(ntpResult.msg)
                  /\ ntpResult.ok = (cmdLog[1].kind = "ok")

C13_Witness ==
    /\ ~admin
    /\ Finished("sync_time_immediately")
    /\ ntpResult.msg = <<Lit("need admin to sync")>>
    /\ cmdLog = <<>>

\* a call of fn had returned success before command i was issued
SucceededBefore(fn, i) ==
    \E j \in 1..cmdLog[i].nret : retLog[j].fn = fn /\ retLog[j].ok

Failed(i) == cmdLog[i].kind # "ok"

\* C14: configure_ntp_server runs start_time_service, the configuration
\* write and the restart in this order; the write is issued only after
\* start_time_service succeeded, the restart only after the write succeeded,
\* and the first stage that fails ends the call with a failure that carries
\* the stage's message, no command of a later stage being issued
C14_ConfigureStages ==
    CurrentOp = "configure_ntp_server" =>
        /\ \A i \in DOMAIN cmdLog :
               /\ cmdLog[i].cmd = CmdConfig
                      => SucceededBefore("start_time_service", i)
               /\ cmdLog[i].cmd = CmdRestart
                      => \E k \in 1..(i - 1) :
                             cmdLog[k].cmd = CmdConfig /\ ~Failed(k)
               /\ (cmdLog[i].cmd = CmdConfig /\ Failed(i))
                      => /\ ~Issued(CmdRestart)
                         /\ stack = <<>> =>
                                /\ ~ntpResult.ok
                                /\ ntpResult.msg = <<Lit("configure failed: ")>>
                                                       \o cmdLog[i].out
               /\ (cmdLog[i].cmd = CmdRestart /\ Failed(i))
                      => (stack = <<>> =>
                             /\ ~ntpResult.ok
                             /\ ntpResult.msg = <<Lit("restart failed: ")>>
                                                    \o cmdLog[i].out)
        /\ \A j \in DOMAIN retLog :
               (retLog[j].fn = "start_time_service" /\ ~retLog[j].ok)
                   => /\ ~Issued(CmdConfig) /\ ~Issued(CmdRestart)
                      /\ stack = <<>> =>
                             /\ ~ntpResult.ok
                             /\ ntpResult.msg = <<Lit("start service failed: ")>>
                                                    \o retLog[j].msg
        /\ (stack = <<>> /\ ntpResult.ok)
               => /\ Succeeded("start_time_service")
                  /\ \E k \in DOMAIN cmdLog :
                         /\ cmdLog[k].cmd = CmdConfig /\ ~Failed(k)
                         /\ cmdLog[Len(cmdLog)].cmd = CmdRestart
                         /\ ~Failed(Len(cmdLog))
                         /\ k = Len(cmdLog) - 1

C14_Witness ==
    /\ Finished("configure_ntp_server")
    /\ \E i \in DOMAIN cmdLog : cmdLog[i].cmd = CmdConfig /\ Failed(i)
    /\ ~Issued(CmdRestart)
    /\ ~ntpResult.ok

\* the start_time_service call of the current operation that command i
\* belongs to: one more than the calls that had returned before it
StartCallOf(i) ==
    1 + Cardinality({j \in 1..cmdLog[i].nret :
                         retLog[j].fn = "start_time_service"})

SameStartCall(i, k) == StartCallOf(i) = StartCallOf(k)

\* commands i < k of one start_time_service call with the name cmd
Reissued(cmd, i, k) ==
    /\ i < k
    /\ cmdLog[i].cmd = cmd /\ cmdLog[k].cmd = cmd
    /\ SameStartCall(i, k)

\* within one start_time_service call 'net start' is issued at most twice
\* and 'w32tm /register' at most once, the second 'net start' only after the
\* first failed and the registration succeeded
StartRetriesOnce ==
    \A i \in DOMAIN cmdLog : \A k \in DOMAIN cmdLog :
        /\ Reissued(CmdStart, i, k)
               => /\ Failed(i)
                  /\ \E r \in (i + 1)..(k - 1) :
                         cmdLog[r].cmd = CmdRegister /\ ~Failed(r)
                  /\ \A m \in DOMAIN cmdLog :
                         (cmdLog[m].cmd = CmdStart /\ SameStartCall(i, m))
                             => m \in {i, k}
        /\ ~Reissued(CmdRegister, i, k)

\* C15 as stated: start at most twice and registration at most once within
\* one startService call, the second start only after the first failed and
\* the registration succeeded, and no other command of an operation is issued
\* again after it failed or timed out
C15_NoReissueAfterFailure ==
    /\ StartRetriesOnce
    /\ \A i \in DOMAIN cmdLog : \A k \in DOMAIN cmdLog :
           (i < k /\ cmdLog[i].cmd = cmdLog[k].cmd /\ cmdLog[i].cmd # CmdStart)
               => ~Failed(i)

\* C15 (amended): start at most twice and registration at most once within
\* one startService call, the second start only after the first failed and
\* the registration succeeded, and within one startService call (and
\* outside startService, within one operation) no other command is issued
\* again after it failed or timed out; a later startService call of the
\* same operation issues its commands afresh
C15_NoReissueWithinStartCall ==
    /\ StartRetriesOnce
    /\ \A i \in DOMAIN cmdLog : \A k \in DOMAIN cmdLog :
           (cmdLog[i].cmd # CmdStart /\ Reissued(cmdLog[i].cmd, i, k))
               => ~Failed(i)

C15_Witness ==
    /\ stack = <<>>
    /\ \E i \in DOMAIN cmdLog : \E k \in DOMAIN cmdLog :
           /\ Reissued(CmdStart, i, k)
           /\ cmdLog[i].kind = "timeout"
    /\ \E i \in DOMAIN cmdLog : \E k \in DOMAIN cmdLog :
           /\ i < k /\ cmdLog[i].cmd = CmdQuery /\ cmdLog[k].cmd = CmdQuery
           /\ Failed(i)

\* the status check of a top-level start_time_service call has returned
StatusChecked ==
    /\ CurrentOp = "start_time_service"
    /\ retLog # <<>>
    /\ retLog[1].fn = "check_time_service_status"

\* C16: start_time_service called with privilege while the status check
\* reports the service running returns success, with the status message,
\* and issues no enable, start or registration command
C16_RunningStartsNothing ==
    (admin /\ StatusChecked /\ retLog[1].ok) =>
        /\ ~Issued(CmdEnable) /\ ~Issued(CmdStart) /\ ~Issued(CmdRegister)
        /\ Len(cmdLog) = 2
        /\ stack = <<>> =>
               /\ ntpResult.ok
               /\ ntpResult.msg = retLog[1].msg

C16_Witness ==
    /\ admin
    /\ Finished("start_time_service")
    /\ StatusChecked /\ retLog[1].ok
    /\ cmdLog[1].kind = "ok" /\ InOutput("RUNNING", cmdLog[1].out)
    /\ ntpResult.ok

\* the status check of a top-level start_time_service call reported the
\* service not running and its start type Disabled
FoundDisabled ==
    /\ StatusChecked
    /\ ~retLog[1].ok
    /\ retLog[1].start_type = "disabled"

\* C17: when start_time_service finds the service not running and Disabled,
\* enable_time_service has returned success before any start command, and
\* when that enable_time_service fails start_time_service returns failure
\* without a start or registration command
C17_EnableBeforeStart ==
    (admin /\ FoundDisabled) =>
        /\ \A i \in DOMAIN cmdLog :
               cmdLog[i].cmd \in {CmdStart, CmdRegister} =>
                   /\ cmdLog[i].nret >= 2
                   /\ retLog[2].fn = "enable_time_service"
                   /\ retLog[2].ok
                   /\ \E e \in 1..(i - 1) : cmdLog[e].cmd = CmdEnable
        /\ (Len(retLog) >= 2 /\ ~retLog[2].ok) =>
               /\ retLog[2].fn = "enable_time_service"
               /\ ~Issued(CmdStart) /\ ~Issued(CmdRegister)
               /\ stack = <<>> =>
                      /\ ~ntpResult.ok
                      /\ ntpResult.msg = <<Lit("cannot enable service: ")>>
                                             \o retLog[2].msg

C17_Witness ==
    /\ admin /\ FoundDisabled
    /\ Finished("start_time_service")
    /\ retLog[2].fn = "enable_time_service" /\ ~retLog[2].ok
    /\ Issued(CmdEnable)
    /\ ~Issued(CmdStart) /\ ~Issued(CmdRegister)
    /\ ~ntpResult.ok

\* C18: a top-level start_time_service call one of whose start commands,
\* the first or the one after the registration, failed with the "already
\* running" text returns success
C18_AlreadyRunningIsSuccess ==
    (/\ Finished("start_time_service")
     /\ \E i \in DOMAIN cmdLog :
            cmdLog[i].cmd = CmdStart /\ AlreadyRunning(cmdLog[i].out))
        => ntpResult.ok

\* C19: sync_time_immediately issues the forced resync only after its
\* start_time_service returned success; when start_time_service fails it
\* returns failure, with that message, and issues no resync
C19_ResyncAfterStart ==
    CurrentOp = "sync_time_immediately" =>
        /\ \A i \in DOMAIN cmdLog :
               cmdLog[i].cmd = CmdResync
                   => SucceededBefore("start_time_service", i)
        /\ \A j \in DOMAIN retLog :
               (retLog[j].fn = "start_time_service" /\ ~retLog[j].ok)
                   => /\ ~Issued(CmdResync)
                      /\ stack = <<>> =>
                             /\ ~ntpResult.ok
                             /\ ntpResult.msg = <<Lit("start service failed: ")>>
                                                    \o retLog[j].msg

C19_Witness ==
    /\ admin
    /\ Finished("sync_time_immediately")
    /\ \E j \in DOMAIN retLog :
           retLog[j].fn = "start_time_service" /\ ~retLog[j].ok
    /\ Issued(CmdStart)
    /\ ~Issued(CmdResync)
    /\ ~ntpResult.ok

\* the returns of the stage fn of the current operation
StageReturns(fn) == {j \in DOMAIN retLog : retLog[j].fn = fn}

\* msg ends with the message tail
EndsWith(msg, tail) ==
    /\ Len(msg) >= Len(tail)
    /\ SubSeq(msg, Len(msg) - Len(tail) + 1, Len(msg)) = tail

\* C20: sync_system_time returns success exactly when configure_ntp_server
\* and then sync_time_immediately both returned success, and then its message
\* holds the configuration message followed by the sync message; when a
\* stage fails it returns failure with a message ending with the stage's
C20_BothStages ==
    (CurrentOp = "sync_system_time" /\ stack = <<>>) =>
        LET cfg == StageReturns("configure_ntp_server")
            syn == StageReturns("sync_time_immediately")
        IN /\ Cardinality(cfg) = 1 /\ Cardinality(syn) <= 1
           /\ ntpResult.ok <=>
                  \E c \in cfg : \E s \in syn :
                      c < s /\ retLog[c].ok /\ retLog[s].ok
           /\ ntpResult.ok =>
                  \E c \in cfg : \E s \in syn :
                      ntpResult.msg = <<Lit("aliyun sync succeeded: ")>>
                                          \o retLog[c].msg \o <<Lit("; ")>>
                                          \o retLog[s].msg
           /\ \A j \in cfg \cup syn :
                  ~retLog[j].ok =>
                      /\ ~ntpResult.ok
                      /\ EndsWith(ntpResult.msg, retLog[j].msg)
                      /\ j \in cfg => syn = {}

C20_Witness ==
    /\ Finished("sync_system_time")
    /\ ntpResult.ok
    /\ Succeeded("configure_ntp_server")
    /\ Succeeded("sync_time_immediately")
    /\ Len(ntpResult.msg) > 3

\* command i is the first 'net start' of its start_time_service call
FirstStart(i) ==
    /\ cmdLog[i].cmd = CmdStart
    /\ \A k \in 1..(i - 1) : ~Reissued(CmdStart, k, i)

\* command i is the 'sc config' of line 154, after the registration
Reenable(i) ==
    /\ cmdLog[i].cmd = CmdEnable
    /\ \E r \in 1..(i - 1) :
           cmdLog[r].cmd = CmdRegister /\ SameStartCall(r, i)

\* the first 'net start' of the start_time_service call of command i
FirstStartOf(i) ==
    CHOOSE s \in DOMAIN cmdLog :
        FirstStart(s) /\ SameStartCall(s, i)

Swallowed(i) ==
    \/ cmdLog[i].cmd = CmdQc
    \/ cmdLog[i].cmd = CmdQuery /\ CurrentOp # "check_time_service_status"
    \/ FirstStart(i)
    \/ Reenable(i)

LastN(s, n) == SubSeq(s, Len(s) - n + 1, Len(s))

Min(a, b) == IF a < b THEN a ELSE b

\* C22: after any add_operation calls on a history with max_history = N the
\* history holds min(adds since the last clear, N) records, and they are the
\* most recently added ones in insertion order
C22_KeepsNewestUpToLimit ==
    /\ Len(history) = Min(Len(added), max_history)
    /\ history = LastN(added, Len(history))

C22_Witness ==
    /\ max_history = 2
    /\ Len(added) = 4
    /\ Len(history) = 2
    /\ history[1].timestamp = 3 /\ history[2].timestamp = 4

\* C23: get_last_operation returns the record of the most recent
\* add_operation call when the history is not empty, and None when no record
\* is held, which is so exactly after construction, after clear_history and
\* with max_history = 0
C23_LastIsNewest ==
    [][get_last_operation =>
          /\ history # <<>> =>
                 /\ added # <<>>
                 /\ lastOperation' = added[Len(added)]
          /\ history = <<>> => lastOperation' = None
          /\ history = <<>> <=> (added = <<>> \/ max_history = 0)]_vars

C23_Witness ==
    /\ max_history = 2
    /\ Len(added) = 3
    /\ lastOperation = added[3]
    /\ lastOperation # history[1]

----------------------------------------------------------------------------
(* Properties of the main window and its thread *)

\* a thread has been started and its finished callback has not run yet
InFlight == ntp_thread \in {"running", "emitted"}

\* C27: the sync button is disabled from the start of a thread until its
\* finished callback has run on the main thread, and enabled again then, so
\* at most one thread is in flight; the adjust and undo handlers can run
\* while a thread is running
C27_OneSyncAtATime ==
    /\ InFlight => ~ntp_button
    /\ ~InFlight => ntp_button
    /\ inFlight = IF InFlight THEN 1 ELSE 0
    /\ stack # <<>> => ntp_thread = "running"
    /\ (ntp_thread = "running" /\ admin /\ nOps < MaxUiOps /\ nAdds < MaxAdds)
           => /\ \A days \in UiDays : ENABLED ui_adjust_time(days, "ok")
              /\ (undo_button /\ can_undo) => ENABLED ui_undo_last_change("ok")

C27_Witness ==
    /\ nCalls = 2
    /\ ntp_thread = "running" /\ ~ntp_button
    /\ cmdLog # <<>>
    /\ duringSync = 2
    /\ hist[2].op = "adjust" /\ hist[2].ok
    /\ hist[1].op = "undo" /\ hist[1].ok

\* the step moves the thread
ThreadMoves == stack # <<>> /\ stack' # stack

\* C28: no step of the thread, sync_system_time included, changes lastTime
\* or calls the TimeManager; lastTime changes only in a step of a handler of
\* the main window, however the two interleave; and when no such handler ran
\* since the thread started, lastTime is what it was when the thread started
C28_SyncLeavesUndoSlot ==
    [][/\ ThreadMoves =>
              /\ lastTime' = lastTime
              /\ result' = result /\ hist' = hist /\ nOps' = nOps
       /\ lastTime' # lastTime =>
              /\ stack' = stack /\ cmdLog' = cmdLog /\ ntp_thread' = ntp_thread
              /\ nOps' = nOps + 1
       /\ (ntp_thread' # "none" /\ duringSync' = 0)
              => lastTime' = slotAtStart']_vars

C28_Witness ==
    /\ ntp_thread = "delivered"
    /\ signal.ok
    /\ utc = NtpTime
    /\ duringSync = 0
    /\ slotAtStart # None
    /\ lastTime = slotAtStart

----------------------------------------------------------------------------
(* The fallback of start_time_service and the end of every operation *)

\* the start_time_service call that return j of the current operation ends
StartCallEndedBy(j) ==
    Cardinality({m \in 1..j : retLog[m].fn = "start_time_service"})

\* the commands named cmd of the start_time_service call ended by return j
CommandsOf(cmd, j) ==
    {i \in DOMAIN cmdLog :
         cmdLog[i].cmd = cmd /\ StartCallOf(i) = StartCallEndedBy(j)}

\* the largest element of a non-empty set of numbers
Max(S) == CHOOSE x \in S : \A y \in S : y <= x

\* return j is a failure of start_time_service after the registration
FallbackFailure(j) ==
    /\ retLog[j].fn = "start_time_service"
    /\ ~retLog[j].ok
    /\ CommandsOf(CmdRegister, j) # {}

\* what a message shows of the commands: the names of the commands whose
\* output it holds
CommandsShown(msg) == {msg[e][1] : e \in DOMAIN msg} \ {"lit", "host"}

\* C30: a failure of start_time_service after the registration carries the
\* output of the last 'net start' issued, the first one when the registration
\* failed and the second one when it succeeded; the output of the
\* registration is in no result, and neither is the answer of the enable
\* re-applied after it
C30_FallbackReportsLastStart ==
    /\ \A j \in DOMAIN retLog :
           FallbackFailure(j) =>
               LET starts == CommandsOf(CmdStart, j)
                   r == Max(CommandsOf(CmdRegister, j))
                   last == Max(starts)
               IN /\ starts # {}
                  /\ Failed(last)
                  /\ retLog[j].msg =
                         <<Lit("start service failed: ")>> \o cmdLog[last].out
                  /\ Failed(r) => (last < r /\ Cardinality(starts) = 1)
                  /\ ~Failed(r) => (r < last /\ Cardinality(starts) = 2)
    /\ \A j \in DOMAIN retLog :
           /\ CmdRegister \notin CommandsShown(retLog[j].msg)
           /\ (retLog[j].fn # "enable_time_service"
                   /\ \E i \in DOMAIN cmdLog : Reenable(i))
                  => /\ CmdEnable \notin CommandsShown(retLog[j].msg)
                     /\ \A e \in DOMAIN retLog[j].msg :
                            retLog[j].msg[e] \notin
                                {Lit("enable failed: "),
                                 Lit("service set to automatic")}
    /\ CmdRegister \notin CommandsShown(ntpResult.msg)

C30_Witness ==
    /\ Finished("start_time_service")
    /\ ~ntpResult.ok
    /\ \E i \in DOMAIN cmdLog : Reenable(i) /\ Failed(i)
    /\ \E r \in DOMAIN cmdLog : cmdLog[r].cmd = CmdRegister /\ ~Failed(r)
    /\ cmdLog[Len(cmdLog)].cmd = CmdStart
    /\ cmdLog[Len(cmdLog)].kind = "already"
    /\ \E s \in DOMAIN cmdLog : FirstStart(s) /\ cmdLog[s].kind = "fail"
    /\ ntpResult.msg = <<Lit("start service failed: "),
                         <<CmdStart, "service is already running">>>>

\* the commands start_time_service issues
StartCommands == {CmdQuery, CmdQc, CmdEnable, CmdStart, CmdRegister}

\* the names of the commands of the n-th start_time_service call of the
\* current operation, in the order they were issued
StartCallCommands(n) ==
    LET F[i \in 0..Len(cmdLog)] ==
            IF i = 0 THEN <<>>
            ELSE IF cmdLog[i].cmd \in StartCommands /\ StartCallOf(i) = n
                 THEN Append(F[i - 1], cmdLog[i].cmd)
                 ELSE F[i - 1]
    IN F[Len(cmdLog)]

\* the longest run of commands of one start_time_service call
LongestStart == <<CmdQuery, CmdQc, CmdEnable, CmdStart, CmdRegister,
                  CmdEnable, CmdStart>>

\* s can be had from t by leaving elements out
RECURSIVE IsSubsequence(_, _)
IsSubsequence(s, t) ==
    IF s = <<>> THEN TRUE
    ELSE IF t = <<>> THEN FALSE
    ELSE IF Head(s) = Head(t) THEN IsSubsequence(Tail(s), Tail(t))
    ELSE IsSubsequence(s, Tail(t))

\* the most commands one operation issues: two start_time_service calls,
\* the configuration, the restart and the resync
MostCommands == 2 * Len(LongestStart) + 3

\* every start_time_service call so far issued at most the 7 commands
BoundedCommands ==
    /\ \A n \in 1..2 :
           /\ Len(StartCallCommands(n)) <= Len(LongestStart)
           /\ CurrentOp \in {"start_time_service", "configure_ntp_server",
                             "sync_time_immediately", "sync_system_time",
                             "run"}
                  => IsSubsequence(StartCallCommands(n), LongestStart)
    /\ Len(cmdLog) <= MostCommands

\* a step that emits the finished signal ends run() with the answer of
\* sync_system_time, and is the only emission of its thread; and the step
\* that ends run() emits
EmitsOnce ==
    /\ (signal' # signal /\ signal' # None)
           => /\ signal = None
              /\ ntp_thread = "running" /\ ntp_thread' = "emitted"
              /\ stack' = <<>>
              /\ retLog' # <<>>
              /\ retLog'[Len(retLog')].fn = "sync_system_time"
              /\ signal' = [ok |-> retLog'[Len(retLog')].ok,
                            msg |-> retLog'[Len(retLog')].msg]
    /\ (ntp_thread = "running" /\ stack' = <<>>)
           => (ntp_thread' = "emitted" /\ signal' # None)

\* C29: whatever the commands return, every start_time_service call issues
\* at most 7 commands, in the order of the longest run; every operation in
\* progress returns in the end; and a started thread emits its finished
\* signal in the end, once, with the answer of sync_system_time
C29_TerminatesAndEmitsOnce ==
    /\ []BoundedCommands
    /\ [][EmitsOnce]_vars
    /\ (stack # <<>>) ~> (stack = <<>>)
    /\ (ntp_thread = "running") ~> (ntp_thread = "emitted")

C29_Witness ==
    /\ ntp_thread = "emitted"
    /\ signal # None /\ signal.ok
    /\ StartCallCommands(1) = LongestStart
    /\ \E i \in DOMAIN cmdLog : cmdLog[i].kind = "timeout"

====
